---- MODULE Spec2Model ----
(***************************************************************************)
(* Model of the configuration container of cookiecutter-pypackage-minimal  *)
(* (config.py: ConfigAttribute, Config) and of the start-up glue that      *)
(* fills it (main.py: init_argparse, init_config), with the template       *)
(* switch cookiecutter.use_config = 'y'.                                    *)
(*                                                                         *)
(* Representation.  A Python str used as a dict key is a sequence of       *)
(* one-character strings, so that startswith, slicing and lower() are      *)
(* computed character by character.  A dict (and Config, a dict subclass)  *)
(* is the sequence of its <<key, value>> items in insertion order, with    *)
(* unique keys.  Stored values and file paths are opaque tokens (TLA+      *)
(* strings); the spelling of a path, needed by os.path.splitext, is given  *)
(* by PathChars.                                                           *)
(***************************************************************************)
EXTENDS Integers, Sequences, FiniteSets, TLC

VARIABLES
    config,     \* a Config instance held by an owner object (owner.config)
    defaults,   \* the defaults that instance was constructed with
    environ,    \* os.environ restricted to the variable names of interest
    args,       \* main.args, the module global set by init_argparse
    cfg,        \* config.cfg, the module global set by init_config
    rv,         \* the last call: its name, arguments and outcome
    history     \* the arguments of the loader calls on config that returned

vars == <<config, defaults, environ, args, cfg, rv, history>>

----------------------------------------------------------------------------
(* Bounds of the exploration                                               *)

MaxCalls == 2       \* from_mapping calls recorded in one behaviour
MaxStoreLen == 3    \* items put into a store by direct assignment
MaxLoads == 2       \* from_object calls on one store

----------------------------------------------------------------------------
(* str                                                                     *)

\* ord(c) for the characters that occur in the keys of the model
Ord ==
    ( "A" :> 65 @@ "B" :> 66 @@ "D" :> 68 @@ "E" :> 69 @@ "G" :> 71 @@
      "U" :> 85 @@ "X" :> 88 @@ "_" :> 95 @@
      "a" :> 97 @@ "b" :> 98 @@ "c" :> 99 @@ "d" :> 100 @@ "e" :> 101 @@
      "f" :> 102 @@ "g" :> 103 @@ "i" :> 105 @@ "l" :> 108 @@ "m" :> 109 @@
      "n" :> 110 @@ "o" :> 111 @@ "s" :> 115 @@ "t" :> 116 @@ "u" :> 117 @@
      "v" :> 118 @@ "x" :> 120 @@ "." :> 46 @@ "j" :> 106 @@ "p" :> 112 @@
      "y" :> 121 @@ "r" :> 114 @@ "h" :> 104 @@ "k" :> 107 @@ "/" :> 47 )

\* chr(n), for the codes Ord yields
Chr(n) == CHOOSE c \in DOMAIN Ord : Ord[c] = n

\* str.lower() on one character: 'A'..'Z' move by 32, all else is kept
LowerChar(c) == IF Ord[c] >= 65 /\ Ord[c] <= 90 THEN Chr(Ord[c] + 32) ELSE c

\* str.lower()
Lower(s) == [i \in 1..Len(s) |-> LowerChar(s[i])]

\* str.startswith(prefix)
StartsWith(s, prefix) ==
    /\ Len(prefix) <= Len(s)
    /\ \A i \in 1..Len(prefix) : s[i] = prefix[i]

\* s[n:]
SliceFrom(s, n) == IF n >= Len(s) THEN <<>> ELSE SubSeq(s, n + 1, Len(s))

\* s < t in Python's string order (code points, then length)
RECURSIVE StrLess(_, _)
StrLess(s, t) ==
    IF t = <<>> THEN FALSE
    ELSE IF s = <<>> THEN TRUE
    ELSE IF Ord[Head(s)] # Ord[Head(t)] THEN Ord[Head(s)] < Ord[Head(t)]
    ELSE StrLess(Tail(s), Tail(t))

\* sorted(names) for a set of distinct strings
RECURSIVE Sorted(_)
Sorted(names) ==
    IF names = {} THEN <<>>
    ELSE LET m == CHOOSE x \in names : \A y \in names \ {x} : StrLess(x, y)
         IN <<m>> \o Sorted(names \ {m})

----------------------------------------------------------------------------
(* dict                                                                    *)

EmptyDict == <<>>

\* the keys of a dict
Keys(d) == {d[i][1] : i \in DOMAIN d}

\* key in d
Has(d, k) == \E i \in DOMAIN d : d[i][1] = k

\* d[k] for a key that is present
GetItem(d, k) == d[CHOOSE i \in DOMAIN d : d[i][1] = k][2]

\* d[k] = v: an existing key keeps its place, a new key goes last
SetItem(d, k, v) ==
    IF Has(d, k)
    THEN [i \in DOMAIN d |-> IF d[i][1] = k THEN <<k, v>> ELSE d[i]]
    ELSE Append(d, <<k, v>>)

\* for (key, value) in pairs: d[key] = value
RECURSIVE SetAll(_, _)
SetAll(d, pairs) ==
    IF pairs = <<>> THEN d
    ELSE SetAll(SetItem(d, Head(pairs)[1], Head(pairs)[2]), Tail(pairs))

\* dict(pairs)
Dict(pairs) == SetAll(EmptyDict, pairs)

\* Config.__init__(defaults): dict.__init__(self, defaults or {})
Config(dflt) == Dict(dflt)

\* outcomes of a call
Raise(exc) == [raised |-> exc, ret |-> "None", value |-> "None", dict |-> EmptyDict]
Return(what) == [raised |-> "", ret |-> what, value |-> "None", dict |-> EmptyDict]
ReturnDict(what, d) == [raised |-> "", ret |-> what, value |-> "None", dict |-> d]
ReturnValue(v) == [raised |-> "", ret |-> "value", value |-> v, dict |-> EmptyDict]

----------------------------------------------------------------------------
(* The strings of the model                                                *)

K_log_level == <<"l", "o", "g", "_", "l", "e", "v", "e", "l">>
K_log_file == <<"l", "o", "g", "_", "f", "i", "l", "e">>
K_config_file == <<"c", "o", "n", "f", "i", "g", "_", "f", "i", "l", "e">>
K_builtins == <<"_", "_", "b", "u", "i", "l", "t", "i", "n", "s", "_", "_">>
K_doc == <<"_", "_", "d", "o", "c", "_", "_">>
K_file == <<"_", "_", "f", "i", "l", "e", "_", "_">>
K_loader == <<"_", "_", "l", "o", "a", "d", "e", "r", "_", "_">>
K_name == <<"_", "_", "n", "a", "m", "e", "_", "_">>
K_package == <<"_", "_", "p", "a", "c", "k", "a", "g", "e", "_", "_">>
K_spec == <<"_", "_", "s", "p", "e", "c", "_", "_">>
K_class == <<"_", "_", "c", "l", "a", "s", "s", "_", "_">>
K_module == <<"_", "_", "m", "o", "d", "u", "l", "e", "_", "_">>
K_A == <<"A">>
K_B == <<"B">>
K_a == <<"a">>
K_A_X == <<"A", "_", "X">>
K_A_x == <<"A", "_", "x">>
K_a_x == <<"a", "_", "x">>
K_DEBUG == <<"D", "E", "B", "U", "G">>

\* the spelling of the file paths of the model
PathChars ==
    ( "config.json" :> <<"c", "o", "n", "f", "i", "g", ".", "j", "s", "o", "n">> @@
      "settings.py" :> <<"s", "e", "t", "t", "i", "n", "g", "s", ".", "p", "y">> @@
      "missing.json" :> <<"m", "i", "s", "s", "i", "n", "g", ".", "j", "s", "o", "n">> @@
      "missing.py" :> <<"m", "i", "s", "s", "i", "n", "g", ".", "p", "y">> @@
      "locked.json" :> <<"l", "o", "c", "k", "e", "d", ".", "j", "s", "o", "n">> @@
      "gone.py" :> <<"g", "o", "n", "e", ".", "p", "y">> @@
      "bad.json" :> <<"b", "a", "d", ".", "j", "s", "o", "n">> @@
      "conf.d" :> <<"c", "o", "n", "f", ".", "d">> @@
      "etc/.py" :> <<"e", "t", "c", "/", ".", "p", "y">> @@
      "config.ini" :> <<"c", "o", "n", "f", "i", "g", ".", "i", "n", "i">> )

Paths == DOMAIN PathChars

----------------------------------------------------------------------------
(* The file system and the process environment the loaders read            *)

\* What each path holds.  kind: "missing" (no such file), "dir" (a
\* directory), "locked" (a file the process may not read), "gone" (a file
\* removed between the existence test and open), "json" (a JSON object
\* with string values, which is also a Python expression statement), "py"
\* (Python assignments), "text" (neither JSON nor Python).  items: the
\* members of the JSON object, or the names the Python file binds, in order.
Files ==
    ( "config.json" :> [kind |-> "json",
                        items |-> << <<K_log_level, "debug">>,
                                     <<K_log_file, "json.log">>,
                                     <<K_config_file, "settings.py">>,
                                     <<K_A, "json">> >>] @@
      "settings.py" :> [kind |-> "py",
                        items |-> << <<K_log_level, "warning">>,
                                     <<K_B, "py">>,
                                     <<K_a, "tmp">> >>] @@
      "missing.json" :> [kind |-> "missing", items |-> <<>>] @@
      "missing.py" :> [kind |-> "missing", items |-> <<>>] @@
      "locked.json" :> [kind |-> "locked", items |-> <<>>] @@
      "gone.py" :> [kind |-> "gone", items |-> <<>>] @@
      "bad.json" :> [kind |-> "text", items |-> <<>>] @@
      "conf.d" :> [kind |-> "dir", items |-> <<>>] @@
      "etc/.py" :> [kind |-> "py", items |-> << <<K_log_file, "py.log">> >>] @@
      "config.ini" :> [kind |-> "text", items |-> <<>>] )

\* os.path.exists(filepath)
Exists(filepath) == Files[filepath].kind # "missing"

\* open(filepath): the errno of the IOError it raises, "" when it opens
OpenErrno(filepath) ==
    CASE Files[filepath].kind \in {"missing", "gone"} -> "ENOENT"
      [] Files[filepath].kind = "dir" -> "EISDIR"
      [] Files[filepath].kind = "locked" -> "EACCES"
      [] OTHER -> ""

\* the names of the environment variables callers ask for
VarNames == {"APP_SETTINGS", "MISSING_VAR"}

\* a variable that is not in os.environ
Unset == [set |-> FALSE, value |-> ""]

\* a variable of os.environ with its value
SetTo(value) == [set |-> TRUE, value |-> value]

\* os.path.splitext(p)[1]: from the last dot of the last path component,
\* unless only dots precede it in that component
Splitext(p) ==
    LET s == PathChars[p]
        sepIndex == IF \E i \in DOMAIN s : s[i] = "/"
                    THEN CHOOSE i \in DOMAIN s :
                             s[i] = "/" /\ \A j \in DOMAIN s : s[j] = "/" => j <= i
                    ELSE 0
        dotIndex == IF \E i \in DOMAIN s : s[i] = "."
                    THEN CHOOSE i \in DOMAIN s :
                             s[i] = "." /\ \A j \in DOMAIN s : s[j] = "." => j <= i
                    ELSE 0
    IN  IF dotIndex > sepIndex /\ \E i \in (sepIndex + 1)..(dotIndex - 1) : s[i] # "."
        THEN SliceFrom(s, dotIndex - 1)
        ELSE <<>>

----------------------------------------------------------------------------
(* Objects: an object is the set of <<name, value>> attributes that dir()  *)
(* and getattr() show                                                      *)

\* dir(obj): the attribute names, sorted
Dir(obj) == Sorted({a[1] : a \in obj})

\* getattr(obj, name)
GetAttr(obj, name) == (CHOOSE a \in obj : a[1] = name)[2]

\* the attributes every class (and instance) has besides its own fields;
\* Python reports these three and more (__dict__, __eq__, __init__, ...)
ObjectAttributes ==
    { <<K_class, "<class>">>, <<K_doc, "None">>, <<K_module, "<module>">> }

\* a class whose body assigns the given fields
ClassWith(fields) == {fields[i] : i \in DOMAIN fields} \cup ObjectAttributes

\* types.ModuleType(name)
ModuleType(name) ==
    { <<K_name, name>>, <<K_doc, "None">>, <<K_package, "None">>,
      <<K_loader, "None">>, <<K_spec, "None">> }

\* setattr(obj, name, value)
SetAttr(obj, name, value) == {a \in obj : a[1] # name} \cup {<<name, value>>}

RECURSIVE SetAttrs(_, _)
SetAttrs(obj, pairs) ==
    IF pairs = <<>> THEN obj
    ELSE SetAttrs(SetAttr(obj, Head(pairs)[1], Head(pairs)[2]), Tail(pairs))

\* exec(compile(text, filepath, 'exec'), d.__dict__) for a file that
\* compiles: __builtins__ is added, then the file's assignments run
Exec(filepath, d) ==
    SetAttrs(SetAttr(d, K_builtins, "<builtins>"),
             IF Files[filepath].kind = "py" THEN Files[filepath].items ELSE <<>>)

----------------------------------------------------------------------------
(* config.py: Config                                                       *)

\* Config.from_object(self, obj): the store afterwards
from_object(self, obj) ==
    LET names == Dir(obj)
    IN SetAll(self, [i \in DOMAIN names |-> <<names[i], GetAttr(obj, names[i])>>])

\* for mapping in mappings: for (key, value) in mapping: self[key] = value
RECURSIVE UpdateEach(_, _)
UpdateEach(self, mappings) ==
    IF mappings = <<>> THEN self
    ELSE UpdateEach(SetAll(self, Head(mappings)), Tail(mappings))

\* for (key, value) in pairs: self.setdefault(key, value)
RECURSIVE SetDefaultAll(_, _)
SetDefaultAll(d, pairs) ==
    IF pairs = <<>> THEN d
    ELSE SetDefaultAll(IF Has(d, Head(pairs)[1]) THEN d
                       ELSE SetItem(d, Head(pairs)[1], Head(pairs)[2]),
                       Tail(pairs))

\* from_mapping that keeps the value of a key the store already holds
from_mapping_setdefault(self, mapping, kwargs) ==
    IF Len(mapping) > 1
    THEN [raised |-> "TypeError", ret |-> "None", self |-> self]
    ELSE [raised |-> "", ret |-> "True",
          self |-> SetDefaultAll(IF Len(mapping) = 1
                                 THEN SetDefaultAll(self, mapping[1].pairs) ELSE self,
                                 kwargs)]

\* from_mapping that counts its positional arguments after merging the first
from_mapping_raise_late(self, mapping, kwargs) ==
    IF Len(mapping) > 1
    THEN [raised |-> "TypeError", ret |-> "None", self |-> SetAll(self, mapping[1].pairs)]
    ELSE LET mappings == (IF Len(mapping) = 1 THEN <<mapping[1].pairs>> ELSE <<>>)
                             \o <<kwargs>>
         IN [raised |-> "", ret |-> "True", self |-> UpdateEach(self, mappings)]

\* Config.from_mapping(self, *mapping, **kwargs): what it raises or returns
\* and the store afterwards.  A positional argument is [hasitems, pairs]:
\* a dict (pairs are its items()) or a list of pairs.
from_mapping(self, mapping, kwargs) ==
    IF Len(mapping) > 1
    THEN [raised |-> "TypeError", ret |-> "None", self |-> self]
    ELSE LET mappings == (IF Len(mapping) = 1 THEN <<mapping[1].pairs>> ELSE <<>>)
                             \o <<kwargs>>
         IN [raised |-> "", ret |-> "True", self |-> UpdateEach(self, mappings)]

\* Config.from_pyfile(filepath, silent), a classmethod
from_pyfile(filepath, silent) ==
    IF ~Exists(filepath) THEN Raise("Exception")
    ELSE IF OpenErrno(filepath) # ""
    THEN IF silent /\ OpenErrno(filepath) \in {"ENOENT", "EISDIR"}
         THEN Return("False")
         ELSE Raise("IOError")
    ELSE IF Files[filepath].kind = "text" THEN Raise("SyntaxError")
    ELSE LET d == Exec(filepath, SetAttr(ModuleType("config"), K_file, filepath))
         IN ReturnDict("Config", from_object(Config(<<>>), d))

\* Config.from_json(filepath, silent), a classmethod
from_json(filepath, silent) ==
    IF ~Exists(filepath) THEN Raise("Exception")
    ELSE IF OpenErrno(filepath) # ""
    THEN IF silent /\ OpenErrno(filepath) \in {"ENOENT", "EISDIR"}
         THEN Return("False")
         ELSE Raise("IOError")
    ELSE IF Files[filepath].kind # "json" THEN Raise("ValueError")
    ELSE LET obj == [hasitems |-> TRUE, pairs |-> Dict(Files[filepath].items)]
         IN ReturnDict("Config", from_mapping(Config(<<>>), <<obj>>, <<>>).self)

\* from_envvar that tests the variable with "rv is None"
from_envvar_is_none(env, variable_name, silent) ==
    LET value == env[variable_name]
    IN IF ~value.set
       THEN IF silent THEN Return("False") ELSE Raise("RuntimeError")
       ELSE Raise("NameError")

\* Config.from_envvar(variable_name, silent), a classmethod whose first
\* parameter is named self: the name cls in its last line is bound nowhere
from_envvar(env, variable_name, silent) ==
    LET value == env[variable_name]
    IN IF ~value.set \/ value.value = ""
       THEN IF silent THEN Return("False") ELSE Raise("RuntimeError")
       ELSE Raise("NameError")

\* get_namespace whose first source key wins a collision
RECURSIVE get_namespace_first_wins(_, _, _, _, _)
get_namespace_first_wins(items, out, namespace, lowercase, trim_namespace) ==
    IF items = <<>> THEN out
    ELSE LET k == Head(items)[1]
             v == Head(items)[2]
             trimmed == IF trim_namespace THEN SliceFrom(k, Len(namespace)) ELSE k
             key == IF lowercase THEN Lower(trimmed) ELSE trimmed
         IN get_namespace_first_wins(Tail(items),
                                     IF StartsWith(k, namespace) /\ ~Has(out, key)
                                     THEN SetItem(out, key, v) ELSE out,
                                     namespace, lowercase, trim_namespace)

\* Config.get_namespace(self, namespace, lowercase, trim_namespace)
RECURSIVE get_namespace_loop(_, _, _, _, _)
get_namespace_loop(items, out, namespace, lowercase, trim_namespace) ==
    IF items = <<>> THEN out
    ELSE LET k == Head(items)[1]
             v == Head(items)[2]
             trimmed == IF trim_namespace THEN SliceFrom(k, Len(namespace)) ELSE k
             key == IF lowercase THEN Lower(trimmed) ELSE trimmed
         IN get_namespace_loop(Tail(items),
                               IF StartsWith(k, namespace) THEN SetItem(out, key, v) ELSE out,
                               namespace, lowercase, trim_namespace)

get_namespace(self, namespace, lowercase, trim_namespace) ==
    get_namespace_loop(self, EmptyDict, namespace, lowercase, trim_namespace)

----------------------------------------------------------------------------
(* config.py: ConfigAttribute, a descriptor [name, get_converter]          *)

\* the converters of the model: None, or bool
Convert(get_converter, value) ==
    IF get_converter = "bool" THEN (IF value = "" THEN "False" ELSE "True") ELSE value

\* ConfigAttribute.__get__(self, obj, type); obj is [isNone, config]
ConfigAttribute_get(self, obj) ==
    IF obj.isNone THEN Return("self")
    ELSE IF ~Has(obj.config, self.name) THEN Raise("KeyError")
    ELSE LET stored == GetItem(obj.config, self.name)
         IN ReturnValue(IF self.get_converter # "None"
                        THEN Convert(self.get_converter, stored)
                        ELSE stored)

\* __set__ that stores the converted value
ConfigAttribute_set_converted(self, obj, value) ==
    SetItem(obj.config, self.name,
            IF self.get_converter # "None" THEN Convert(self.get_converter, value) ELSE value)

\* ConfigAttribute.__set__(self, obj, value): obj.config afterwards
ConfigAttribute_set(self, obj, value) == SetItem(obj.config, self.name, value)

----------------------------------------------------------------------------
(* main.py                                                                 *)

\* args before init_argparse ran
NoArgs == [parsed |-> FALSE, config_file |-> "", log_file |-> "", log_level |-> ""]

\* init_argparse(): parser.parse_args() for a command line that gives each
\* option at most once; argv maps an option to [given, value]
init_argparse(argv) ==
    [parsed |-> TRUE,
     log_file |-> IF argv.log_file.given THEN argv.log_file.value ELSE "",
     log_level |-> IF argv.log_level.given THEN argv.log_level.value ELSE "info",
     config_file |-> IF argv.config_file.given THEN argv.config_file.value
                     ELSE "config.json"]

\* args._get_kwargs(): the (name, value) pairs of the namespace, sorted by
\* name before Python 3.9 and in the order the options were added since
GetKwargs(a, sortedByName) ==
    IF sortedByName
    THEN << <<K_config_file, a.config_file>>, <<K_log_file, a.log_file>>,
            <<K_log_level, a.log_level>> >>
    ELSE << <<K_log_file, a.log_file>>, <<K_log_level, a.log_level>>,
            <<K_config_file, a.config_file>> >>

\* init_config that merges the command line first and the file over it
init_config_file_last(a, oldcfg, sortedByName) ==
    IF ~a.parsed THEN [raised |-> "AttributeError", cfg |-> oldcfg]
    ELSE LET ext == Splitext(a.config_file)
             loaded == IF ext = <<".", "j", "s", "o", "n">>
                       THEN from_json(a.config_file, FALSE)
                       ELSE IF ext = <<".", "p", "y">>
                       THEN from_pyfile(a.config_file, FALSE)
                       ELSE Raise("Exception")
         IN IF loaded.raised # "" THEN [raised |-> loaded.raised, cfg |-> oldcfg]
            ELSE [raised |-> "", cfg |-> SetAll(Config(GetKwargs(a, sortedByName)), loaded.dict)]

\* init_config(): what it raises and config.cfg afterwards
init_config(a, oldcfg, sortedByName) ==
    IF ~a.parsed THEN [raised |-> "AttributeError", cfg |-> oldcfg]
    ELSE LET ext == Splitext(a.config_file)
             loaded == IF ext = <<".", "j", "s", "o", "n">>
                       THEN from_json(a.config_file, FALSE)
                       ELSE IF ext = <<".", "p", "y">>
                       THEN from_pyfile(a.config_file, FALSE)
                       ELSE Raise("Exception")
         IN IF loaded.raised # "" THEN [raised |-> loaded.raised, cfg |-> oldcfg]
            ELSE IF loaded.ret # "Config"
            THEN [raised |-> "AttributeError", cfg |-> oldcfg]
            ELSE [raised |-> "",
                  cfg |-> from_mapping(loaded.dict,
                                       <<[hasitems |-> FALSE, pairs |-> GetKwargs(a, sortedByName)]>>,
                                       <<>>).self]

----------------------------------------------------------------------------
(* State machine                                                           *)

\* rv before any call
NoCall ==
    [op |-> "", args |-> <<>>, raised |-> "", ret |-> "None", value |-> "None",
     dict |-> EmptyDict]

\* rv after a call with the given outcome
Called(op, callargs, out) ==
    [op |-> op, args |-> callargs, raised |-> out.raised, ret |-> out.ret,
     value |-> out.value, dict |-> out.dict]

\* the module globals as the imports leave them: args = None, cfg = Config()
NoEnviron == [n \in VarNames |-> Unset]
ModuleGlobals ==
    /\ args = NoArgs
    /\ cfg = Config(<<>>)

\* --- inputs ---

\* defaults passed to Config(defaults)
DefaultsChoices ==
    { <<>>,
      << <<K_A, "0">> >>,
      << <<K_B, "0">>, <<K_log_level, "error">> >> }

\* positional arguments of from_mapping: dicts and lists of pairs
PositionalChoices ==
    { [hasitems |-> TRUE, pairs |-> << <<K_A, "1">> >>],
      [hasitems |-> TRUE, pairs |-> << <<K_B, "1">>, <<K_A, "2">> >>],
      [hasitems |-> FALSE, pairs |-> << <<K_A, "1">>, <<K_A, "3">> >>] }

\* keyword arguments of from_mapping, in the order written
KwargsChoices ==
    { <<>>,
      << <<K_A, "2">> >>,
      << <<K_B, "3">>, <<K_A, "1">> >> }

\* the positional argument tuples tried: none, one, two or three mappings
MappingChoices ==
    {<<>>} \cup {<<m>> : m \in PositionalChoices}
    \cup { <<m, n>> : m \in PositionalChoices, n \in {mm \in PositionalChoices : mm.hasitems} }
    \cup { <<m, m, m>> : m \in {mm \in PositionalChoices : ~mm.hasitems} }

\* keys and values assigned directly, prefixes and flags asked of get_namespace
AssignKeys == {K_A, K_A_X, K_A_x, K_a_x, K_B}
AssignValues == {"1", "2"}
NamespaceChoices == {<<>>, K_A, <<"A", "_">>, K_A_X}

\* the classes handed to from_object
ObjectChoices ==
    { ClassWith(<< <<K_A, "1">>, <<K_B, "x">> >>),
      ClassWith(<< <<K_A, "2">> >>),
      ClassWith(<< <<K_a, "1">>, <<K_A_X, "y">> >>),
      ClassWith(<<>>) }

\* the descriptors declared on the owner class, and what is written through them
DescriptorChoices ==
    { [name |-> K_DEBUG, get_converter |-> "None"],
      [name |-> K_DEBUG, get_converter |-> "bool"],
      [name |-> K_A, get_converter |-> "bool"] }
AttrKeys == {K_DEBUG, K_A, K_B}
AttrValues == {"true", "", "x"}

\* the environments explored
EnvChoices ==
    [VarNames -> {Unset, SetTo(""), SetTo("settings.py"), SetTo("missing.py"),
                  SetTo("conf.d")}]

\* command lines: each option absent, or given with a value
NotGiven == [given |-> FALSE, value |-> ""]
Given(v) == [given |-> TRUE, value |-> v]
ArgvChoices ==
    [log_file : {NotGiven, Given("cli.log")},
     log_level : {NotGiven, Given("debug"), Given("error")},
     config_file : {NotGiven} \cup {Given(p) : p \in Paths}]

\* --- the store: direct assignment and from_mapping ---

\* config[k] = v
Assign(k, v) ==
    /\ Len(SetItem(config, k, v)) <= MaxStoreLen
    /\ config' = SetItem(config, k, v)
    /\ rv' = Called("__setitem__", [key |-> k, value |-> v], Return("None"))
    /\ UNCHANGED <<defaults, environ, args, cfg, history>>

\* config.from_mapping(*mapping, **kwargs)
FromMapping(mapping, kwargs) ==
    /\ Len(history) < MaxCalls
    /\ LET out == from_mapping(config, mapping, kwargs)
       IN /\ config' = out.self
          /\ rv' = Called("from_mapping", [mapping |-> mapping, kwargs |-> kwargs],
                          IF out.raised # "" THEN Raise(out.raised) ELSE Return(out.ret))
          /\ history' = IF out.raised = ""
                        THEN Append(history, [mapping |-> mapping, kwargs |-> kwargs])
                        ELSE history
    /\ UNCHANGED <<defaults, environ, args, cfg>>

InitMapping ==
    /\ defaults \in DefaultsChoices
    /\ config = Config(defaults)
    /\ environ = NoEnviron
    /\ ModuleGlobals
    /\ rv = NoCall
    /\ history = <<>>

NextMapping == \E mapping \in MappingChoices, kwargs \in KwargsChoices : FromMapping(mapping, kwargs)

SpecMapping == InitMapping /\ [][NextMapping]_vars

\* --- get_namespace ---

\* config.get_namespace(namespace, lowercase, trim_namespace)
GetNamespace(namespace, lowercase, trim_namespace) ==
    /\ rv' = Called("get_namespace",
                    [namespace |-> namespace, lowercase |-> lowercase,
                     trim_namespace |-> trim_namespace],
                    ReturnDict("dict", get_namespace(config, namespace, lowercase,
                                                     trim_namespace)))
    /\ UNCHANGED <<config, defaults, environ, args, cfg, history>>

InitNamespace ==
    /\ defaults = <<>>
    /\ config = Config(defaults)
    /\ environ = NoEnviron
    /\ ModuleGlobals
    /\ rv = NoCall
    /\ history = <<>>

NextNamespace ==
    \/ \E k \in AssignKeys, v \in AssignValues : Assign(k, v)
    \/ \E namespace \in NamespaceChoices, lowercase \in BOOLEAN, trim_namespace \in BOOLEAN :
           GetNamespace(namespace, lowercase, trim_namespace)

SpecNamespace == InitNamespace /\ [][NextNamespace]_vars

\* --- from_object ---

\* config.from_object(obj)
FromObject(obj) ==
    /\ Len(history) < MaxLoads
    /\ config' = from_object(config, obj)
    /\ rv' = Called("from_object", [obj |-> obj], Return("None"))
    /\ history' = Append(history, obj)
    /\ UNCHANGED <<defaults, environ, args, cfg>>

NextObject ==
    \/ \E obj \in ObjectChoices : FromObject(obj)
    \/ \E namespace \in NamespaceChoices, lowercase \in BOOLEAN, trim_namespace \in BOOLEAN :
           GetNamespace(namespace, lowercase, trim_namespace)

SpecObject == InitNamespace /\ [][NextObject]_vars

\* --- ConfigAttribute on an owner whose config attribute is config ---

\* owner.attr, or Owner.attr when onClass
DescGet(desc, onClass) ==
    /\ rv' = Called("__get__", [desc |-> desc, onClass |-> onClass],
                    ConfigAttribute_get(desc, [isNone |-> onClass, config |-> config]))
    /\ UNCHANGED <<config, defaults, environ, args, cfg, history>>

\* owner.attr = value
DescSet(desc, value) ==
    /\ config' = ConfigAttribute_set(desc, [isNone |-> FALSE, config |-> config], value)
    /\ rv' = Called("__set__", [desc |-> desc, value |-> value], Return("None"))
    /\ UNCHANGED <<defaults, environ, args, cfg, history>>

NextAttr ==
    \/ \E k \in AttrKeys, v \in AttrValues : Assign(k, v)
    \/ \E desc \in DescriptorChoices, onClass \in BOOLEAN : DescGet(desc, onClass)
    \/ \E desc \in DescriptorChoices, v \in AttrValues : DescSet(desc, v)

SpecAttr == InitNamespace /\ [][NextAttr]_vars

\* --- the classmethod loaders, called through the instance config ---

\* config.from_envvar(variable_name, silent)
FromEnvvar(variable_name, silent) ==
    /\ rv' = Called("from_envvar", [variable_name |-> variable_name, silent |-> silent],
                    from_envvar(environ, variable_name, silent))
    /\ UNCHANGED <<config, defaults, environ, args, cfg, history>>

\* config.from_pyfile(filepath, silent)
FromPyfile(filepath, silent) ==
    /\ rv' = Called("from_pyfile", [filepath |-> filepath, silent |-> silent],
                    from_pyfile(filepath, silent))
    /\ UNCHANGED <<config, defaults, environ, args, cfg, history>>

\* config.from_json(filepath, silent)
FromJson(filepath, silent) ==
    /\ rv' = Called("from_json", [filepath |-> filepath, silent |-> silent],
                    from_json(filepath, silent))
    /\ UNCHANGED <<config, defaults, environ, args, cfg, history>>

InitLoaders ==
    /\ defaults \in DefaultsChoices
    /\ config = Config(defaults)
    /\ environ \in EnvChoices
    /\ ModuleGlobals
    /\ rv = NoCall
    /\ history = <<>>

NextLoaders ==
    \/ \E n \in VarNames, silent \in BOOLEAN : FromEnvvar(n, silent)
    \/ \E p \in Paths, silent \in BOOLEAN : FromPyfile(p, silent)
    \/ \E p \in Paths, silent \in BOOLEAN : FromJson(p, silent)

SpecLoaders == InitLoaders /\ [][NextLoaders]_vars

\* --- main.py ---

\* init_argparse() on the command line argv
InitArgparse(argv) ==
    /\ args' = init_argparse(argv)
    /\ rv' = Called("init_argparse", [argv |-> argv], Return("None"))
    /\ UNCHANGED <<config, defaults, environ, cfg, history>>

\* init_config(), under either order of args._get_kwargs()
InitConfig(sortedByName) ==
    /\ LET out == init_config(args, cfg, sortedByName)
       IN /\ cfg' = out.cfg
          /\ rv' = Called("init_config", <<>>,
                          IF out.raised # "" THEN Raise(out.raised) ELSE Return("None"))
    /\ UNCHANGED <<config, defaults, environ, args, history>>

NextMain ==
    \/ \E argv \in ArgvChoices : InitArgparse(argv)
    \/ \E sortedByName \in BOOLEAN : InitConfig(sortedByName)

SpecMain == InitNamespace /\ [][NextMain]_vars

----------------------------------------------------------------------------
(* Properties                                                              *)

\* the last index of a non-empty set of indices
Last(indices) == CHOOSE i \in indices : \A j \in indices : j <= i

\* whether a from_mapping call was given key k, and the value it gave it:
\* the keyword's, else that of the last positional pair with that key
CallSets(call, k) ==
    \/ \E i \in DOMAIN call.kwargs : call.kwargs[i][1] = k
    \/ /\ Len(call.mapping) = 1
       /\ \E i \in DOMAIN call.mapping[1].pairs : call.mapping[1].pairs[i][1] = k
CallValue(call, k) ==
    IF \E i \in DOMAIN call.kwargs : call.kwargs[i][1] = k
    THEN call.kwargs[Last({i \in DOMAIN call.kwargs : call.kwargs[i][1] = k})][2]
    ELSE LET pairs == call.mapping[1].pairs
         IN pairs[Last({i \in DOMAIN pairs : pairs[i][1] = k})][2]

\* C1: after any sequence of from_mapping calls with at most one positional
\* mapping each, every key holds the value given by the last call that set
\* it, and a key no call set is as the constructor left it.
C1_LastWriteWins ==
    \A k \in Keys(config) \cup Keys(Config(defaults)) \cup {K_A, K_B} :
        LET setters == {i \in DOMAIN history : CallSets(history[i], k)}
        IN IF setters = {}
           THEN /\ Has(config, k) <=> Has(Config(defaults), k)
                /\ Has(config, k) => GetItem(config, k) = GetItem(Config(defaults), k)
           ELSE /\ Has(config, k)
                /\ GetItem(config, k) = CallValue(history[Last(setters)], k)

\* two calls gave A different values, the second won, an unset default stays
C1_Witness ==
    /\ Len(history) = 2
    /\ CallSets(history[1], K_A) /\ CallSets(history[2], K_A)
    /\ CallValue(history[1], K_A) # CallValue(history[2], K_A)
    /\ GetItem(config, K_A) = CallValue(history[2], K_A)
    /\ ~CallSets(history[1], K_B) /\ ~CallSets(history[2], K_B)
    /\ Has(config, K_B) /\ GetItem(config, K_B) = "0"

\* C9: a from_mapping call with two or more positional arguments raises
\* TypeError, whatever the arguments hold, and the store is not written.
C9_TooManyPositional ==
    [][(rv'.op = "from_mapping" /\ Len(rv'.args.mapping) >= 2)
         => (rv'.raised = "TypeError" /\ config' = config)]_vars

\* such a call raised on a store that lacks a key of its first argument
C9_Witness ==
    /\ rv.op = "from_mapping"
    /\ Len(rv.args.mapping) >= 2
    /\ rv.args.kwargs # <<>>
    /\ rv.raised = "TypeError"
    /\ \E i \in DOMAIN rv.args.mapping[1].pairs :
           ~Has(config, rv.args.mapping[1].pairs[i][1])

\* the key get_namespace files source key k under
ResultKey(k, a) ==
    LET kept == IF a.trim_namespace
                THEN [i \in 1..(Len(k) - Len(a.namespace)) |-> k[i + Len(a.namespace)]]
                ELSE k
    IN IF a.lowercase THEN Lower(kept) ELSE kept

\* result is the namespace of store for the arguments a
IsNamespaceOf(result, store, a) ==
    LET matching == {i \in DOMAIN store : StartsWith(store[i][1], a.namespace)}
    IN /\ Cardinality(Keys(result)) = Len(result)
       /\ Keys(result) = {ResultKey(store[i][1], a) : i \in matching}
       /\ \A i \in matching :
              (\A j \in matching :
                   j > i => ResultKey(store[j][1], a) # ResultKey(store[i][1], a))
                  => GetItem(result, ResultKey(store[i][1], a)) = store[i][2]

\* C6: get_namespace returns a mapping built from exactly the keys that
\* start with the prefix, each under its key with the prefix removed (when
\* trim_namespace) and then lowercased (when lowercase), the later-iterated
\* source key winning a collision.
C6_Namespace ==
    [][rv'.op = "get_namespace" => IsNamespaceOf(rv'.dict, config, rv'.args)]_vars

\* A_X and A_x collide under "A_" with lowercase; A_x, inserted later, wins
C6_Witness ==
    /\ config = << <<K_A_X, "1">>, <<K_A_x, "2">>, <<K_B, "1">> >>
    /\ rv.op = "get_namespace"
    /\ rv.args = [namespace |-> <<"A", "_">>, lowercase |-> TRUE, trim_namespace |-> TRUE]
    /\ rv.dict = << << <<"x">>, "2" >> >>

\* the fields a class body assigned
Fields(obj) == obj \ ObjectAttributes

\* C7: from_object on an empty store, then get_namespace("", lowercase=False,
\* trim_namespace=False), yields exactly the fields of the object.
C7_RoundTrip ==
    (/\ rv.op = "get_namespace"
     /\ rv.args = [namespace |-> <<>>, lowercase |-> FALSE, trim_namespace |-> FALSE]
     /\ Len(history) = 1)
        => {rv.dict[i] : i \in DOMAIN rv.dict} = Fields(history[1])

\* C8: a read through the descriptor raises KeyError while the key is
\* absent and otherwise returns the stored value, converted when a converter
\* is set; a write through it stores the value unconverted; and a read right
\* after a write, through the descriptor or directly, sees the value written.
C8_StoreView ==
    /\ (rv.op = "__get__" /\ ~rv.args.onClass) =>
           IF ~Has(config, rv.args.desc.name)
           THEN rv.raised = "KeyError"
           ELSE /\ rv.raised = ""
                /\ rv.value = IF rv.args.desc.get_converter = "None"
                              THEN GetItem(config, rv.args.desc.name)
                              ELSE Convert(rv.args.desc.get_converter,
                                           GetItem(config, rv.args.desc.name))
    /\ rv.op = "__set__" =>
           /\ Has(config, rv.args.desc.name)
           /\ GetItem(config, rv.args.desc.name) = rv.args.value
C8_ReadAfterWrite ==
    (/\ rv.op \in {"__set__", "__setitem__"}
     /\ rv'.op = "__get__" /\ ~rv'.args.onClass
     /\ rv'.args.desc.name = (IF rv.op = "__set__" THEN rv.args.desc.name ELSE rv.args.key))
        => /\ rv'.raised = ""
           /\ rv'.value = IF rv'.args.desc.get_converter = "None" THEN rv.args.value
                          ELSE Convert(rv'.args.desc.get_converter, rv.args.value)
C8_Forwarder == []C8_StoreView /\ [][C8_ReadAfterWrite]_vars

\* "true" was written through a descriptor that converts with bool
C8_Witness ==
    /\ rv.op = "__set__"
    /\ rv.args.desc = [name |-> K_DEBUG, get_converter |-> "bool"]
    /\ rv.args.value = "true"
    /\ GetItem(config, K_DEBUG) = "true"

\* whether the variable a from_envvar call names is unset or empty
EnvMissing(call) ==
    ~environ[call.args.variable_name].set \/ environ[call.args.variable_name].value = ""

\* C5: from_envvar on a variable that is unset or empty raises RuntimeError
\* when silent is false; when silent is true it returns False and changes
\* no store.
C5_MissingEnvVar ==
    [][(/\ rv'.op = "from_envvar"
        /\ environ[rv'.args.variable_name] \in {Unset, SetTo("")})
         => IF rv'.args.silent
            THEN rv'.raised = "" /\ rv'.ret = "False" /\ config' = config /\ cfg' = cfg
            ELSE rv'.raised = "RuntimeError"]_vars

\* a silent call on a variable set to "" returned False beside a filled store
C5_Witness ==
    /\ rv.op = "from_envvar"
    /\ rv.args.silent
    /\ environ[rv.args.variable_name] = SetTo("")
    /\ rv.ret = "False"
    /\ config # <<>>

\* C3: with the variable set to a non-empty path, from_envvar ends as
\* from_pyfile on that path with the same silent flag ends.
C3_Delegates ==
    (rv.op = "from_envvar" /\ ~EnvMissing(rv)) =>
        LET out == from_pyfile(environ[rv.args.variable_name].value, rv.args.silent)
        IN rv.raised = out.raised /\ rv.ret = out.ret /\ rv.dict = out.dict

\* C4: with silent=True a file loader returns False, raising nothing, when
\* the path does not exist or is a directory; with silent=False a missing
\* file raises.
C4_SilentSwallows ==
    (rv.op \in {"from_pyfile", "from_json"}
        /\ Files[rv.args.filepath].kind \in {"missing", "dir"}) =>
        IF rv.args.silent
        THEN rv.raised = "" /\ rv.ret = "False"
        ELSE Files[rv.args.filepath].kind = "missing" => rv.raised # ""

\* the keys a loaded file defines, as a dict
FileDefines(call) ==
    IF call.op = "from_json" \/ Files[call.args.filepath].kind = "py"
    THEN Dict(Files[call.args.filepath].items)
    ELSE EmptyDict

\* C2: after a file loader call on a store returned a Config, that store
\* holds every key the file defines with the file's value and every earlier
\* key the file does not define with its earlier value.
C2_UpdatesStore ==
    (rv.op \in {"from_pyfile", "from_json"} /\ rv.raised = "" /\ rv.ret = "Config") =>
        /\ \A k \in Keys(FileDefines(rv)) :
               Has(config, k) /\ GetItem(config, k) = GetItem(FileDefines(rv), k)
        /\ \A k \in Keys(Config(defaults)) \ Keys(FileDefines(rv)) :
               Has(config, k) /\ GetItem(config, k) = GetItem(Config(defaults), k)

\* C10: after init_config returned, config.cfg holds the parsed command
\* line's log_level, log_file and config_file; and init_config on a
\* config_file whose extension is neither .json nor .py raises and leaves
\* config.cfg as it was.
C10_CliWins ==
    (rv.op = "init_config" /\ rv.raised = "") =>
        /\ Has(cfg, K_log_level) /\ GetItem(cfg, K_log_level) = args.log_level
        /\ Has(cfg, K_log_file) /\ GetItem(cfg, K_log_file) = args.log_file
        /\ Has(cfg, K_config_file) /\ GetItem(cfg, K_config_file) = args.config_file
C10_Unsupported ==
    (/\ rv'.op = "init_config"
     /\ args.parsed
     /\ Splitext(args.config_file) \notin {<<".", "j", "s", "o", "n">>, <<".", "p", "y">>})
        => rv'.raised = "Exception" /\ cfg' = cfg
C10_InitConfig == []C10_CliWins /\ [][C10_Unsupported]_vars

\* config.json sets log_level and log_file; the command line gave neither,
\* and the argparse defaults are what config.cfg holds
C10_Witness ==
    /\ rv.op = "init_config" /\ rv.raised = ""
    /\ args.config_file = "config.json"
    /\ args.log_level = "info" /\ args.log_file = ""
    /\ GetItem(cfg, K_log_level) = "info"
    /\ GetItem(cfg, K_log_file) = ""
    /\ GetItem(cfg, K_A) = "json"

====
